---- MODULE Spec2Model ----
(***************************************************************************)
(* Model of the agent-loop session orchestrator (three-phase variant):     *)
(* parseCliArgs, readFeatureList, planExists, getProgress, determinePhase, *)
(* getPromptForPhase, runAgent, notify and main.                           *)
(*                                                                         *)
(* The disk (feature_list.json, plan.md) is owned by the agent and by      *)
(* other processes: it may change at every point where main is suspended   *)
(* (inside runAgent's stream, in Bun.sleep, in notify).  Everything main   *)
(* does between two suspension points is one atomic step.                  *)
(***************************************************************************)
EXTENDS Integers, Sequences, FiniteSets, TLC

(* ------------------------------ bounds --------------------------------- *)
\* longest features array explored
MaxFeatures == 2
\* most events one agent stream delivers
MaxEvents == 2
\* largest numeric value given to --max-sessions (the default "50" is not explored)
MaxSessionsArg == 2

(* --------------------------- program constants ------------------------- *)
\* Bun.sleep(5000) after a failed session
BackoffMs == 5000
\* a variant that paces as long as it backs off
PacingMs_asBackoff == BackoffMs

\* Bun.sleep(2000) after a successful, incomplete session
PacingMs == 2000

(* ------------------------------ the disk ------------------------------- *)
\* feature_list.json: absent; present but readFileSync or JSON.parse raises
\* (malformed); the JSON literal null; valid JSON that is not an
\* object with a features array of objects ({} , 0, {"features":5}, ...);
\* {"features":[...]} where only each feature's passes flag matters.
NoFeatures == <<>>

FeatureSeqs == UNION { [1..n -> BOOLEAN] : n \in 0..MaxFeatures }

FileKinds == {"absent", "malformed", "null", "badShape", "list"}

File(k, fs) == [kind |-> k, features |-> fs]

FeatureFiles ==
  { File(k, NoFeatures) : k \in FileKinds \ {"list"} }
    \cup { File("list", fs) : fs \in FeatureSeqs }

(* ------------------------- FeatureList | null -------------------------- *)
\* the value null
Null == [kind |-> "null", features |-> NoFeatures]

\* a variant of the parse that rejects what is not a feature list
JSONparse_validating(f) ==
  IF f.kind = "list" THEN [kind |-> f.kind, features |-> f.features]
  ELSE [kind |-> "null", features |-> NoFeatures]

\* JSON.parse(content) for content JSON.parse accepts
JSONparse(f) == [kind |-> f.kind, features |-> f.features]

\* a variant of readFeatureList without the try/catch fallback to null
readFeatureList_nocatch(f) ==
  IF f.kind = "absent" THEN Null
  ELSE IF f.kind = "malformed" THEN [kind |-> "badShape", features |-> NoFeatures]
  ELSE JSONparse(f)

readFeatureList(f) ==
  IF f.kind = "absent" THEN Null
  ELSE IF f.kind = "malformed" THEN Null
  ELSE JSONparse(f)

\* what readFeatureList writes to stderr
readFeatureListLog(f) ==
  IF f.kind = "malformed"
    THEN << "Failed to parse feature_list.json" >>
    ELSE << >>

planExists(p) == p

RECURSIVE CountTrue(_)
CountTrue(fs) ==
  IF fs = << >> THEN 0
  ELSE (IF Head(fs) THEN 1 ELSE 0) + CountTrue(Tail(fs))

\* a variant of getProgress that stops counting at a leading failing feature
getProgress_leading(v) ==
  IF v.kind = "list"
    THEN [threw |-> FALSE,
          passing |-> IF v.features # << >> /\ Head(v.features) THEN CountTrue(v.features) ELSE 0,
          total |-> Len(v.features)]
    ELSE [threw |-> TRUE, passing |-> 0, total |-> 0]

\* getProgress(features): features.features.length / .filter(f => f.passes).length;
\* raises a TypeError when the value has no features array of objects
getProgress(v) ==
  IF v.kind = "list"
    THEN [threw |-> FALSE, passing |-> CountTrue(v.features), total |-> Len(v.features)]
    ELSE [threw |-> TRUE, passing |-> 0, total |-> 0]

(* ---------------------------- determinePhase --------------------------- *)
\* a variant with the planner and coder branches exchanged
determinePhase_swapped(f, p) ==
  IF readFeatureList(f) = Null THEN "initializer"
  ELSE IF planExists(p) THEN "planner"
  ELSE "coder"

determinePhase(f, p) ==
  IF readFeatureList(f) = Null THEN "initializer"
  ELSE IF planExists(p) THEN "coder"
  ELSE "planner"

\* the disk probes determinePhase performs, in order
determinePhaseProbes(f, p) ==
  IF readFeatureList(f) = Null THEN << "feature_list" >>
  ELSE << "feature_list", "plan" >>

NoSpec == "none"

\* a variant in which the planner prompt embeds the project specification
getPromptForPhase_leaky(ph, projectSpec) ==
  IF ph = "initializer" THEN [template |-> "initializer", spec |-> projectSpec]
  ELSE IF ph = "planner" THEN [template |-> "planner", spec |-> projectSpec]
  ELSE [template |-> "coder", spec |-> NoSpec]

getPromptForPhase(ph, projectSpec) ==
  IF ph = "initializer" THEN [template |-> "initializer", spec |-> projectSpec]
  ELSE IF ph = "planner" THEN [template |-> "planner", spec |-> NoSpec]
  ELSE [template |-> "coder", spec |-> NoSpec]

\* a variant of the two-phase choice that takes every existing file for a list
twoPhasePrompt_strict(f, projectSpec) ==
  IF f.kind = "absent" THEN [template |-> "initializer", spec |-> projectSpec]
  ELSE [template |-> "coder", spec |-> NoSpec]

\* the two-phase variant of main, src/src/index.ts lines 160-170: the prompt
\* is chosen from readFeatureList alone
twoPhasePrompt(f, projectSpec) ==
  IF readFeatureList(f) = Null THEN [template |-> "initializer", spec |-> projectSpec]
  ELSE [template |-> "coder", spec |-> NoSpec]

formatPhase(ph) ==
  IF ph = "initializer" THEN "[initializer] Initializing project..."
  ELSE IF ph = "planner" THEN "[planner] Planning next feature..."
  ELSE "[coder] Implementing plan..."

(* ------------------------------ parseCliArgs --------------------------- *)
Digits == << "0", "1", "2", "3", "4", "5", "6", "7", "8", "9" >>

IsDigit(c) == \E d \in 1..10 : Digits[d] = c

DigitVal(c) == (CHOOSE d \in 1..10 : Digits[d] = c) - 1

\* the value NaN
NaN == [isNaN |-> TRUE, val |-> 0]

Num(n) == [isNaN |-> FALSE, val |-> n]

RECURSIVE SkipSpaces(_)
SkipSpaces(s) ==
  IF s # << >> /\ Head(s) = " " THEN SkipSpaces(Tail(s)) ELSE s

\* value of the longest prefix of decimal digits of s, acc being the value so far
RECURSIVE DigitsValue(_, _)
DigitsValue(s, acc) ==
  IF s # << >> /\ IsDigit(Head(s))
    THEN DigitsValue(Tail(s), 10 * acc + DigitVal(Head(s)))
    ELSE acc

\* parseInt(s, 10): leading blanks, an optional sign, then the longest run
\* of digits; NaN when there is no digit
parseInt(s) ==
  LET t    == SkipSpaces(s)
      neg  == t # << >> /\ Head(t) = "-"
      body == IF t # << >> /\ Head(t) \in {"-", "+"} THEN Tail(t) ELSE t
  IN IF body = << >> \/ ~IsDigit(Head(body)) THEN NaN
     ELSE Num((IF neg THEN -1 ELSE 1) * DigitsValue(body, 0))

\* the --max-sessions option values explored
MaxSessionsArgs ==
  { << >>, << "a" >>, << "-", "1" >>, << "2", "x" >>, << " ", "0" >> }
    \cup { << Digits[n + 1] >> : n \in 0..MaxSessionsArg }

Positionals == { << >>, << "specA" >> }

Argv ==
  [ help : BOOLEAN, positionals : Positionals, dirExists : BOOLEAN,
    maxSessions : MaxSessionsArgs, verbose : BOOLEAN ]

\* positionals.join(" ") for at most one positional
Join(ps) == IF ps = << >> THEN "" ELSE ps[1]

\* parseCliArgs exits instead of returning
parseCliArgsExits(a) == a.help \/ a.positionals = << >>

parseCliArgsExitCode(a) == IF a.help THEN "0" ELSE "1"

parseCliArgs(a) ==
  [ projectSpec |-> Join(a.positionals),
    maxSessions |-> parseInt(a.maxSessions),
    verbose     |-> a.verbose ]

(* ------------------------------ SDK messages --------------------------- *)
Event(t, st, c) == [type |-> t, subtype |-> st, content |-> c]

Events ==
  { Event("system", "init", "none"),
    Event("system", "status", "none"),
    Event("assistant", "none", "text"),
    Event("assistant", "none", "tool_use"),
    Event("user", "none", "string"),
    Event("user", "none", "structured"),
    Event("user", "none", "undefined"),
    Event("result", "success", "none"),
    Event("result", "error_max_turns", "errors"),
    Event("result", "error_max_turns", "none"),
    Event("tool_progress", "none", "none"),
    Event("stream_event", "none", "none"),
    Event("auth_status", "none", "none") }

\* the body of the for-await loop raises: a tool_result block without
\* content gives resultStr = undefined, and resultStr.length raises
HandlerThrows(e) == e.type = "user" /\ e.content = "undefined"

\* a variant of the switch that prints progress events in both modes
EventOut_ungated(e, verbose) ==
  (IF verbose THEN << "[message]" >> ELSE << >>) \o
  ( IF e.type = "system" THEN
      IF e.subtype = "init" THEN << "[system] Session initialized", "[system] Model" >>
      ELSE IF verbose THEN << "[system] subtype" >> ELSE << >>
    ELSE IF e.type = "assistant" THEN
      IF e.content = "text" THEN << "text" >> ELSE << "[tool]" >>
    ELSE IF e.type = "user" THEN << "tool result" >>
    ELSE IF e.type = "result" THEN
      IF e.subtype = "success" THEN << "[result] Success" >>
      ELSE << "[result] Error" >> \o (IF e.content = "errors" THEN << "err" >> ELSE << >>)
    ELSE IF e.type = "tool_progress" THEN
      << "[progress]" >>
    ELSE IF e.type = "stream_event" THEN
      IF verbose THEN << "[stream]" >> ELSE << >>
    ELSE << >> )

\* what the switch prints for one message
EventOut(e, verbose) ==
  (IF verbose THEN << "[message]" >> ELSE << >>) \o
  ( IF e.type = "system" THEN
      IF e.subtype = "init" THEN << "[system] Session initialized", "[system] Model" >>
      ELSE IF verbose THEN << "[system] subtype" >> ELSE << >>
    ELSE IF e.type = "assistant" THEN
      IF e.content = "text" THEN << "text" >> ELSE << "[tool]" >>
    ELSE IF e.type = "user" THEN << "tool result" >>
    ELSE IF e.type = "result" THEN
      IF e.subtype = "success" THEN << "[result] Success" >>
      ELSE << "[result] Error" >> \o (IF e.content = "errors" THEN << "err" >> ELSE << >>)
    ELSE IF e.type = "tool_progress" THEN
      IF verbose THEN << "[progress]" >> ELSE << >>
    ELSE IF e.type = "stream_event" THEN
      IF verbose THEN << "[stream]" >> ELSE << >>
    ELSE << >> )

\* what handling one message does: the lines printed, whether the loop
\* body raises, and the result subtype the message carries
onMessage(e, verbose) ==
  [ lines  |-> EventOut(e, verbose),
    threw  |-> HandlerThrows(e),
    result |-> IF e.type = "result" THEN e.subtype ELSE "none" ]

\* a variant of runAgent whose catch block returns true
runAgentReturns_always(e) == TRUE

\* runAgent's return value: e is "none" when the stream ended, "stream" when
\* query() or the iteration raised, "handler" when the loop body raised
runAgentReturns(e) == e = "none"

\* what runAgent's catch block prints
runAgentCatchLog(verbose) ==
  << "--- Agent session failed ---", "Error:" >> \o
  (IF verbose THEN << "Stack:" >> ELSE << >>)

(* --------------------------------- main -------------------------------- *)
\* a variant of the loop condition that is off by one
LoopCond_offbyone(s, m) == ~m.isNaN /\ s <= m.val + 1

\* session <= options.maxSessions (false for NaN)
LoopCond(s, m) == ~m.isNaN /\ s <= m.val

\* a variant of main that never takes the retry branch
isFailure_never(ok) == FALSE

\* !success
isFailure(ok) == ~ok

\* a variant of the completion test that never holds
isComplete_never(passing, total) == passing > total

\* passing === total
isComplete(passing, total) == passing = total

(* --------------------------------- state ------------------------------- *)
VARIABLES
  argv,         \* Bun.argv.slice(2) and whether the --dir directory exists
  fl,           \* feature_list.json on disk
  plan,         \* whether plan.md exists
  pc,           \* where main is suspended: start, running (inside runAgent),
                \* retrying (Bun.sleep(5000)), pacing (Bun.sleep(2000)),
                \* notifying (await notify), finished (main returned), exited
  exitCode,     \* "none" while running, then the process exit status
  session,      \* the loop variable of main
  started,      \* number of runAgent calls made so far
  phase,        \* phase of the current or last session
  prompt,       \* prompt handed to the current or last session
  evCount,      \* messages the current stream has delivered
  lastResult,   \* subtype of the last result message of the current stream
  exc,          \* how the current or last session's try block ended
  success,      \* "pending" while in flight, then runAgent's return value
  seen,         \* what main read from the feature list after the session
  pauses,       \* the Bun.sleep calls of the current iteration, in order
  announced,    \* "All features complete!" has been printed
  notifyCalls,  \* number of notify calls
  out,          \* the lines printed by the program's latest step
  probes,       \* the disk probes made by the program's latest step
  inflight,     \* query() streams opened and not yet ended or raised
  job,          \* a value handed to one of the display or prompt functions
  shown         \* what that function returned

vars ==
  << argv, fl, plan, pc, exitCode, session, started, phase, prompt, evCount,
     lastResult, exc, success, seen, pauses, announced, notifyCalls, out, probes,
     inflight, job, shown >>

\* the variables of the function-level specification
pureVars == << job, shown >>

NoJob == [kind |-> "none"]

Pending == [kind |-> "pending"]

disk == << fl, plan >>

sessionVars ==
  << phase, prompt, evCount, lastResult, exc, success, seen, pauses >>

options == parseCliArgs(argv)

Unread == [tag |-> "unread", passing |-> 0, total |-> 0]

SeenNull == [tag |-> "null", passing |-> 0, total |-> 0]

SeenThrew == [tag |-> "threw", passing |-> 0, total |-> 0]

SeenProgress(pr) == [tag |-> "progress", passing |-> pr.passing, total |-> pr.total]

Init ==
  /\ argv \in Argv
  /\ fl \in FeatureFiles
  /\ plan \in BOOLEAN
  /\ pc = "start"
  /\ exitCode = "none"
  /\ session = 0
  /\ started = 0
  /\ phase = "none"
  /\ prompt = [template |-> "none", spec |-> NoSpec]
  /\ evCount = 0
  /\ lastResult = "none"
  /\ exc = "none"
  /\ success = "pending"
  /\ seen = Unread
  /\ pauses = << >>
  /\ announced = FALSE
  /\ notifyCalls = 0
  /\ out = << >>
  /\ probes = << >>
  /\ inflight = 0
  /\ job = NoJob
  /\ shown = Pending

\* a variant of main that exits with status 1 when the budget runs out
LoopExit_error(pre) ==
  /\ pc' = "finished"
  /\ exitCode' = "1"
  /\ probes' = << >>
  /\ out' = pre \o << "=== Agent loop finished ===" >>
  /\ UNCHANGED << started, inflight, sessionVars >>

\* the loop test fails: line 365, and main returns
LoopExit(pre) ==
  /\ pc' = "finished"
  /\ exitCode' = "0"
  /\ probes' = << >>
  /\ out' = pre \o << "=== Agent loop finished ===" >>
  /\ UNCHANGED << started, inflight, sessionVars >>

\* a variant of the loop that resolves the phase once and keeps it
EnterIteration_cached(s, pre) ==
  /\ session' = s
  /\ IF LoopCond(s, options.maxSessions)
       THEN /\ pc' = "running"
            /\ exitCode' = exitCode
            /\ started' = started + 1
            /\ inflight' = inflight + 1
            /\ phase' = IF phase = "none" THEN determinePhase(fl, plan) ELSE phase
            /\ prompt' = getPromptForPhase(phase', options.projectSpec)
            /\ evCount' = 0
            /\ lastResult' = "none"
            /\ exc' = "none"
            /\ success' = "pending"
            /\ seen' = Unread
            /\ pauses' = << >>
            /\ probes' = IF phase = "none" THEN determinePhaseProbes(fl, plan) ELSE << >>
            /\ out' = pre \o << "=== Session ===", formatPhase(phase'),
                                "--- Agent session starting ---" >>
       ELSE LoopExit(pre)

\* the for statement's test with session = s, and the part of the loop body
\* up to the first suspension inside runAgent; pre is what was printed before
EnterIteration(s, pre) ==
  /\ session' = s
  /\ IF LoopCond(s, options.maxSessions)
       THEN /\ pc' = "running"
            /\ exitCode' = exitCode
            /\ started' = started + 1
            /\ inflight' = inflight + 1
            /\ phase' = determinePhase(fl, plan)
            /\ prompt' = getPromptForPhase(determinePhase(fl, plan), options.projectSpec)
            /\ evCount' = 0
            /\ lastResult' = "none"
            /\ exc' = "none"
            /\ success' = "pending"
            /\ seen' = Unread
            /\ pauses' = << >>
            /\ probes' = determinePhaseProbes(fl, plan)
            /\ out' = pre \o << "=== Session ===" >> \o readFeatureListLog(fl)
                          \o << formatPhase(determinePhase(fl, plan)),
                                "--- Agent session starting ---" >>
       ELSE LoopExit(pre)

\* a variant of main whose loop variable starts at 0
Start_fromZero ==
  /\ pc = "start"
  /\ IF parseCliArgsExits(argv)
       THEN /\ pc' = "exited"
            /\ exitCode' = parseCliArgsExitCode(argv)
            /\ out' = << "Usage: agent-loop <project-spec> [options]" >>
            /\ probes' = << >>
            /\ UNCHANGED << session, started, inflight, sessionVars >>
       ELSE IF ~argv.dirExists
         THEN /\ pc' = "exited"
              /\ exitCode' = "1"
              /\ out' = << "Project directory does not exist" >>
              /\ probes' = << >>
              /\ UNCHANGED << session, started, inflight, sessionVars >>
         ELSE EnterIteration(0, << "=== Agent Loop Starting ===" >>
                                  \o (IF options.verbose THEN << "Verbose mode: enabled" >> ELSE << >>))
  /\ UNCHANGED << argv, disk, announced, notifyCalls, pureVars >>

\* main up to the first suspension
Start ==
  /\ pc = "start"
  /\ IF parseCliArgsExits(argv)
       THEN /\ pc' = "exited"
            /\ exitCode' = parseCliArgsExitCode(argv)
            /\ out' = << "Usage: agent-loop <project-spec> [options]" >>
            /\ probes' = << >>
            /\ UNCHANGED << session, started, inflight, sessionVars >>
       ELSE IF ~argv.dirExists
         THEN /\ pc' = "exited"
              /\ exitCode' = "1"
              /\ out' = << "Project directory does not exist" >>
              /\ probes' = << >>
              /\ UNCHANGED << session, started, inflight, sessionVars >>
         ELSE EnterIteration(1, << "=== Agent Loop Starting ===" >>
                                  \o (IF options.verbose THEN << "Verbose mode: enabled" >> ELSE << >>))
  /\ UNCHANGED << argv, disk, announced, notifyCalls, pureVars >>

\* runAgent returns after its try block ended as e, and main runs on to its
\* next suspension; pre is what the stream's last step printed
AfterSession(e, pre) ==
  LET ok == runAgentReturns(e)
      v  == readFeatureList(fl)
      pr == getProgress(v)
  IN /\ exc' = e
     /\ success' = IF ok THEN "true" ELSE "false"
     /\ inflight' = inflight - 1
     /\ UNCHANGED << session, started, phase, prompt, evCount, lastResult >>
     /\ IF isFailure(ok)
          THEN \* lines 342-346
               /\ out' = pre \o runAgentCatchLog(options.verbose)
                             \o << "Session failed, retrying after delay..." >>
               /\ pauses' = Append(pauses, BackoffMs)
               /\ pc' = "retrying"
               /\ probes' = << >>
               /\ UNCHANGED << seen, announced, notifyCalls, exitCode >>
          ELSE IF v = Null
            THEN \* lines 349-350, 362
                 /\ out' = pre \o << "--- Agent session ended ---" >> \o readFeatureListLog(fl)
                 /\ seen' = SeenNull
                 /\ pauses' = Append(pauses, PacingMs)
                 /\ pc' = "pacing"
                 /\ probes' = << "feature_list" >>
                 /\ UNCHANGED << announced, notifyCalls, exitCode >>
            ELSE IF pr.threw
              THEN \* line 351 raises; main().catch, lines 368-371
                   /\ out' = pre \o << "--- Agent session ended ---", "Fatal error:" >>
                   /\ seen' = SeenThrew
                   /\ pc' = "exited"
                   /\ exitCode' = "1"
                   /\ probes' = << "feature_list" >>
                   /\ UNCHANGED << pauses, announced, notifyCalls >>
              ELSE IF isComplete(pr.passing, pr.total)
                THEN \* lines 354-356
                     /\ out' = pre \o << "--- Agent session ended ---", "Progress:",
                                         "All features complete!" >>
                     /\ seen' = SeenProgress(pr)
                     /\ announced' = TRUE
                     /\ notifyCalls' = notifyCalls + 1
                     /\ pc' = "notifying"
                     /\ probes' = << "feature_list" >>
                     /\ UNCHANGED << pauses, exitCode >>
                ELSE \* line 362
                     /\ out' = pre \o << "--- Agent session ended ---", "Progress:" >>
                     /\ seen' = SeenProgress(pr)
                     /\ pauses' = Append(pauses, PacingMs)
                     /\ pc' = "pacing"
                     /\ probes' = << "feature_list" >>
                     /\ UNCHANGED << announced, notifyCalls, exitCode >>

\* the stream delivers one message and the loop body handles it
AgentEvent ==
  /\ pc = "running"
  /\ evCount < MaxEvents
  /\ \E e \in Events :
       IF HandlerThrows(e)
         THEN AfterSession("handler", IF options.verbose THEN << "[message]" >> ELSE << >>)
         ELSE /\ evCount' = evCount + 1
              /\ lastResult' = IF e.type = "result" THEN e.subtype ELSE lastResult
              /\ out' = EventOut(e, options.verbose)
              /\ probes' = << >>
              /\ UNCHANGED << pc, exitCode, session, started, phase, prompt, exc,
                              success, seen, pauses, announced, notifyCalls, inflight >>
  /\ UNCHANGED << argv, disk, pureVars >>

\* query() or the iteration raises
AgentThrow ==
  /\ pc = "running"
  /\ AfterSession("stream", << >>)
  /\ UNCHANGED << argv, disk, pureVars >>

\* the stream ends
AgentEnd ==
  /\ pc = "running"
  /\ AfterSession("none", << >>)
  /\ UNCHANGED << argv, disk, pureVars >>

\* a variant of main that calls runAgent without awaiting it
SleepDone_unawaited ==
  /\ pc \in {"running", "retrying", "pacing"}
  /\ EnterIteration(session + 1, << >>)
  /\ UNCHANGED << argv, disk, announced, notifyCalls, pureVars >>

\* Bun.sleep resolves: continue / end of the loop body, session++
SleepDone ==
  /\ pc \in {"retrying", "pacing"}
  /\ EnterIteration(session + 1, << >>)
  /\ UNCHANGED << argv, disk, announced, notifyCalls, pureVars >>

\* a variant of main that removes plan.md once everything passes
NotifyDone_cleanup ==
  /\ pc = "notifying"
  /\ pc' = "finished"
  /\ exitCode' = "0"
  /\ out' = << "=== Agent loop finished ===" >>
  /\ probes' = << >>
  /\ plan' = FALSE
  /\ UNCHANGED << argv, fl, session, started, sessionVars, announced, notifyCalls,
                  inflight, pureVars >>

\* osascript exits: break, then line 365
NotifyDone ==
  /\ pc = "notifying"
  /\ pc' = "finished"
  /\ exitCode' = "0"
  /\ out' = << "=== Agent loop finished ===" >>
  /\ probes' = << >>
  /\ UNCHANGED << argv, disk, session, started, sessionVars, announced, notifyCalls,
                  inflight, pureVars >>

\* Bun.spawn raises (no osascript): the rejection reaches main().catch
NotifyFail ==
  /\ pc = "notifying"
  /\ pc' = "exited"
  /\ exitCode' = "1"
  /\ out' = << "Fatal error:" >>
  /\ probes' = << >>
  /\ UNCHANGED << argv, disk, session, started, sessionVars, announced, notifyCalls,
                  inflight, pureVars >>

\* the agent, or anything else, rewrites one artifact while main is suspended
DiskChange ==
  /\ pc \in {"running", "retrying", "pacing", "notifying"}
  /\ \/ fl' \in FeatureFiles \ {fl} /\ plan' = plan
     \/ plan' = ~plan /\ fl' = fl
  /\ UNCHANGED << argv, pc, exitCode, session, started, sessionVars,
                  announced, notifyCalls, out, probes, inflight, pureVars >>

Next ==
  \/ Start
  \/ AgentEvent
  \/ AgentThrow
  \/ AgentEnd
  \/ SleepDone
  \/ NotifyDone
  \/ NotifyFail
  \/ DiskChange

Spec == Init /\ [][Next]_vars

\* the scheduling the runtime gives main: the argument checks run, every
\* agent invocation returns or raises, every pause elapses and the
\* notification call settles; events and disk changes may or may not come
FairSpec ==
  /\ Spec
  /\ WF_vars(Start)
  /\ WF_vars(AgentEnd \/ AgentThrow)
  /\ WF_vars(SleepDone)
  /\ WF_vars(NotifyDone \/ NotifyFail)

(* --------------------- runAgent's display, as functions ---------------- *)
\* how far around each cap the test strings reach
MaxOver == 2

ToolInputCap == 200

ToolResultCap == 500

ToolResultCapVerbose == 2000

AnsiResultCap == 200

Ellipsis == << ".", ".", "." >>

Q == "\""

Empty == << "(", "e", "m", "p", "t", "y", ")" >>

\* '"output"' and 'output:', the two markers the unwrap looks for
MarkerQuoted == << Q, "o", "u", "t", "p", "u", "t", Q >>

MarkerBare == << "o", "u", "t", "p", "u", "t", ":" >>

\* a string of n characters without quotes or markers
Str(n) == [i \in 1..n |-> Digits[(i % 10) + 1]]

Caps == {ToolInputCap, ToolResultCap, ToolResultCapVerbose, AnsiResultCap}

TestLens == (0..MaxOver) \cup UNION { (c - MaxOver)..(c + MaxOver) : c \in Caps }

\* values a tool hands back: a plain string, structured data, a JSON
\* object text with a string or a list under "output", a text that holds
\* the bare marker and is not JSON, no content at all, and the block list
\* [{type:"text", text:T}] where T is the JSON text {"output":"<payload>"}
\* (textBlock) or {"output":"output:<payload>"} (textBlockMarked)
Shapes ==
  {"string", "data", "outputString", "outputList", "markerInvalid", "undefined",
   "textBlock", "textBlockMarked"}

Contents ==
  { c \in [shape : Shapes, payload : {Str(n) : n \in TestLens}] :
      c.shape = "undefined" => c.payload = << >> }

IsString(c) == c.shape \in {"string", "outputString", "outputList", "markerInvalid"}

BS == "\\"

\* the value under "output" in a content that has one, as it prints
InnerOutput(c) ==
  IF c.shape = "textBlockMarked" THEN MarkerBare \o c.payload ELSE c.payload

\* JSON.stringify([{type:"text", text:'{"output":"<inner>"}'}]): the quotes
\* of the inner text are escaped
BlockText(inner) ==
  << "[", "{", Q, "t", "y", "p", "e", Q, ":", Q, "t", "e", "x", "t", Q, ",",
     Q, "t", "e", "x", "t", Q, ":", Q >>
  \o << "{", BS, Q, "o", "u", "t", "p", "u", "t", BS, Q, ":", BS, Q >>
  \o inner \o << BS, Q, "}" >> \o << Q, "}", "]" >>

\* the characters of a string value; for data, of its JSON rendering
TextOf(c) ==
  IF c.shape = "string" THEN c.payload
  ELSE IF c.shape = "data" THEN << "[", Q >> \o c.payload \o << Q, "]" >>
  ELSE IF c.shape = "outputString"
    THEN << "{" >> \o MarkerQuoted \o << ":", Q >> \o c.payload \o << Q, "}" >>
  ELSE IF c.shape = "outputList"
    THEN << "{" >> \o MarkerQuoted \o << ":", "[", Q >> \o c.payload \o << Q, "]", "}" >>
  ELSE IF c.shape \in {"textBlock", "textBlockMarked"} THEN BlockText(InnerOutput(c))
  ELSE MarkerBare \o c.payload

\* JSON.stringify of a value that is a quote-free string or data
JSONstringify(c) ==
  IF c.shape = "string" THEN << Q >> \o c.payload \o << Q >>
  ELSE TextOf(c)

includes(s, sub) ==
  \E i \in 1..(Len(s) - Len(sub) + 1) : SubSeq(s, i, i + Len(sub) - 1) = sub

slice(s, n) == SubSeq(s, 1, IF Len(s) < n THEN Len(s) ELSE n)

\* x.length > cap ? x.slice(0, cap) + "..." : x, where len is x.length
truncated(str, len, cap) ==
  IF len > cap THEN slice(str, cap) \o Ellipsis ELSE str

Threw == [kind |-> "threw"]

Nothing == [kind |-> "nothing"]

Text(t) == [kind |-> "text", text |-> t]

\* case "assistant", tool_use block: lines 226-228
toolInputDisplay(input) ==
  LET inputStr == JSONstringify(input)
  IN  Text(truncated(inputStr, Len(inputStr), ToolInputCap))

\* the unwrap of lines 246-261: the value left in resultStr, str as it
\* prints and len its .length (the number of elements for a list)
unwrap(c) ==
  LET resultStr == TextOf(c)
      keep == [str |-> resultStr, len |-> Len(resultStr)]
  IN  IF ~(includes(resultStr, MarkerQuoted) \/ includes(resultStr, MarkerBare))
        THEN keep
      ELSE IF c.shape \in {"outputString", "textBlock", "textBlockMarked"}
        THEN IF InnerOutput(c) = << >> THEN [str |-> Empty, len |-> Len(Empty)]
             ELSE [str |-> InnerOutput(c), len |-> Len(InnerOutput(c))]
      ELSE IF c.shape = "outputList" THEN [str |-> InnerOutput(c), len |-> 1]
      ELSE keep

\* case "user", tool_result block: lines 239-265
toolResultDisplay(c, verbose) ==
  IF c.shape = "undefined" THEN Threw
  ELSE LET r == unwrap(c)
           maxLen == IF verbose THEN ToolResultCapVerbose ELSE ToolResultCap
       IN  Text(truncated(r.str, r.len, maxLen))

\* case "user" of the ANSI variant: src/src/index.ts lines 445-453
ansiToolResultDisplay(c, verbose) ==
  IF c.shape = "undefined" \/ ~verbose THEN Nothing
  ELSE LET resultStr == JSONstringify(c)
       IN  Text(slice(resultStr, AnsiResultCap)
                  \o (IF Len(resultStr) > AnsiResultCap THEN Ellipsis ELSE << >>))

ProjectSpecs == {"specA", "specB"}

Phases == {"initializer", "planner", "coder"}

\* the orders in which a list of n features can be written
Perms(n) == { p \in [1..n -> 1..n] : \A i, j \in 1..n : p[i] = p[j] => i = j }

Permute(fs, p) == [i \in 1..Len(fs) |-> fs[p[i]]]

ProgressJobs ==
  UNION { { [kind |-> "progress", features |-> fs, order |-> p] : p \in Perms(Len(fs)) } :
          fs \in FeatureSeqs }

\* the jobs that read the artifacts on disk
DiskJobKinds == {"phase", "twoPhase"}

Jobs ==
  ProgressJobs
  \cup [kind : {"event"}, event : Events]
  \cup [kind : {"phase"}]
  \cup [kind : {"twoPhase"}, spec : ProjectSpecs]
  \cup [kind : {"prompt"}, phase : Phases, specs : ProjectSpecs \X ProjectSpecs]
  \cup [kind : {"toolInput"}, input : {c \in Contents : c.shape \in {"string", "data"}}]
  \cup [kind : {"toolResult"}, variant : {"picocolors"}, verbose : BOOLEAN,
        content : Contents]
  \cup [kind : {"toolResult"}, variant : {"ansi"}, verbose : BOOLEAN,
        content : {c \in Contents : c.shape \in {"string", "data", "undefined"}}]

mainVars ==
  << argv, fl, plan, pc, exitCode, session, started, phase, prompt, evCount,
     lastResult, exc, success, seen, pauses, announced, notifyCalls, out,
     probes, inflight >>

PureInit ==
  /\ argv = [help |-> FALSE, positionals |-> << >>, dirExists |-> FALSE,
             maxSessions |-> << >>, verbose |-> FALSE]
  /\ fl \in FeatureFiles
  /\ plan \in BOOLEAN
  /\ pc = "start"
  /\ exitCode = "none"
  /\ session = 0
  /\ started = 0
  /\ phase = "none"
  /\ prompt = [template |-> "none", spec |-> NoSpec]
  /\ evCount = 0
  /\ lastResult = "none"
  /\ exc = "none"
  /\ success = "pending"
  /\ seen = Unread
  /\ pauses = << >>
  /\ announced = FALSE
  /\ notifyCalls = 0
  /\ out = << >>
  /\ probes = << >>
  /\ inflight = 0
  /\ job \in Jobs
  /\ job.kind \notin DiskJobKinds => (fl = File("absent", NoFeatures) /\ plan = FALSE)
  /\ shown = Pending

BuildPrompts ==
  /\ job.kind = "prompt" /\ shown = Pending
  /\ shown' = [kind |-> "prompts",
               a |-> getPromptForPhase(job.phase, job.specs[1]),
               b |-> getPromptForPhase(job.phase, job.specs[2])]
  /\ UNCHANGED << mainVars, job >>

ShowToolInput ==
  /\ job.kind = "toolInput" /\ shown = Pending
  /\ shown' = toolInputDisplay(job.input)
  /\ UNCHANGED << mainVars, job >>

ShowToolResult ==
  /\ job.kind = "toolResult" /\ job.variant = "picocolors" /\ shown = Pending
  /\ shown' = toolResultDisplay(job.content, job.verbose)
  /\ UNCHANGED << mainVars, job >>

ShowToolResultAnsi ==
  /\ job.kind = "toolResult" /\ job.variant = "ansi" /\ shown = Pending
  /\ shown' = ansiToolResultDisplay(job.content, job.verbose)
  /\ UNCHANGED << mainVars, job >>

\* getProgress on a parsed list, and on the same features in another order
ComputeProgress ==
  /\ job.kind = "progress" /\ shown = Pending
  /\ shown' = [kind |-> "progress",
               a |-> getProgress(JSONparse(File("list", job.features))),
               b |-> getProgress(JSONparse(File("list", Permute(job.features, job.order))))]
  /\ UNCHANGED << mainVars, job >>

\* a variant of determinePhase that leaves a plan.md behind
DeterminePhaseTwice_writes ==
  /\ job.kind = "phase" /\ shown = Pending
  /\ plan' = TRUE
  /\ shown' = [kind |-> "phases",
               first |-> determinePhase(fl, plan),
               second |-> determinePhase(fl, plan')]
  /\ UNCHANGED << argv, fl, pc, exitCode, session, started, phase, prompt, evCount,
                  lastResult, exc, success, seen, pauses, announced, notifyCalls,
                  out, probes, inflight, job >>

\* two calls of determinePhase in a row
DeterminePhaseTwice ==
  /\ job.kind = "phase" /\ shown = Pending
  /\ shown' = [kind |-> "phases",
               first |-> determinePhase(fl, plan),
               second |-> determinePhase(fl, plan)]
  /\ UNCHANGED << mainVars, job >>

\* the two-phase main chooses the prompt of a session
SelectTwoPhasePrompt ==
  /\ job.kind = "twoPhase" /\ shown = Pending
  /\ shown' = [kind |-> "prompt2", prompt |-> twoPhasePrompt(fl, job.spec),
               probes |-> << "feature_list" >>]
  /\ UNCHANGED << mainVars, job >>

\* one message handled by a quiet and by a verbose runAgent
HandleEvent ==
  /\ job.kind = "event" /\ shown = Pending
  /\ shown' = [kind |-> "handled",
               quiet |-> onMessage(job.event, FALSE),
               loud |-> onMessage(job.event, TRUE)]
  /\ UNCHANGED << mainVars, job >>

PureNext ==
  \/ BuildPrompts
  \/ HandleEvent
  \/ DeterminePhaseTwice
  \/ SelectTwoPhasePrompt
  \/ ComputeProgress
  \/ ShowToolInput
  \/ ShowToolResult
  \/ ShowToolResultAnsi

PureSpec == PureInit /\ [][PureNext]_vars

(* ------------------- the two-phase variant of main --------------------- *)
\* the messages of a stream that the two-phase runAgent tells apart
TwoPhaseEvents ==
  { Event("assistant", "none", "string"),
    Event("assistant", "none", "blocks"),
    Event("result", "success", "none"),
    Event("result", "error_during_execution", "none"),
    Event("system", "init", "none") }

\* what the two-phase loop body prints for one message
TwoPhaseEventOut(e) ==
  IF e.type = "assistant" /\ e.content = "string" THEN << "text" >>
  ELSE IF e.type = "result" /\ e.subtype = "error_during_execution" THEN << "Agent error:" >>
  ELSE << >>

\* the two-phase command line has no --verbose
TwoPhaseInit == Init /\ ~argv.verbose

\* the for statement's test with session = s and the loop body up to the
\* first suspension inside runAgent
TwoPhaseEnterIteration(s, pre) ==
  /\ session' = s
  /\ IF LoopCond(s, options.maxSessions)
       THEN /\ pc' = "running"
            /\ exitCode' = exitCode
            /\ started' = started + 1
            /\ inflight' = inflight + 1
            /\ prompt' = twoPhasePrompt(fl, options.projectSpec)
            /\ phase' = twoPhasePrompt(fl, options.projectSpec).template
            /\ evCount' = 0
            /\ lastResult' = "none"
            /\ exc' = "none"
            /\ success' = "pending"
            /\ seen' = Unread
            /\ pauses' = << >>
            /\ probes' = << "feature_list" >>
            /\ out' = pre \o << "=== Session ===" >> \o readFeatureListLog(fl)
                          \o << IF readFeatureList(fl) = Null
                                  THEN "Initializing project..."
                                  ELSE "Continuing progress...",
                                "--- Agent session starting ---" >>
       ELSE LoopExit(pre)

TwoPhaseStart ==
  /\ pc = "start"
  /\ IF parseCliArgsExits(argv)
       THEN /\ pc' = "exited"
            /\ exitCode' = parseCliArgsExitCode(argv)
            /\ out' = << "Usage: agent-loop <project-spec> [options]" >>
            /\ probes' = << >>
            /\ UNCHANGED << session, started, inflight, sessionVars >>
       ELSE IF ~argv.dirExists
         THEN /\ pc' = "exited"
              /\ exitCode' = "1"
              /\ out' = << "Project directory does not exist" >>
              /\ probes' = << >>
              /\ UNCHANGED << session, started, inflight, sessionVars >>
         ELSE TwoPhaseEnterIteration(1, << "=== Agent Loop Starting ===" >>)
  /\ UNCHANGED << argv, disk, announced, notifyCalls, pureVars >>

TwoPhaseAgentEvent ==
  /\ pc = "running"
  /\ evCount < MaxEvents
  /\ \E e \in TwoPhaseEvents :
       /\ evCount' = evCount + 1
       /\ lastResult' = IF e.type = "result" THEN e.subtype ELSE lastResult
       /\ out' = TwoPhaseEventOut(e)
  /\ probes' = << >>
  /\ UNCHANGED << pc, exitCode, session, started, phase, prompt, exc,
                  success, seen, pauses, announced, notifyCalls, inflight >>
  /\ UNCHANGED << argv, disk, pureVars >>

\* a variant of the two-phase runAgent that swallows the exception
TwoPhaseAgentThrow_caught ==
  /\ pc = "running"
  /\ exc' = "stream"
  /\ success' = "false"
  /\ inflight' = inflight - 1
  /\ pc' = "pacing"
  /\ pauses' = Append(pauses, PacingMs)
  /\ out' = << >>
  /\ probes' = << >>
  /\ UNCHANGED << exitCode, session, started, phase, prompt, evCount, lastResult,
                  seen, announced, notifyCalls >>
  /\ UNCHANGED << argv, disk, pureVars >>

\* query() or the iteration raises: nothing catches it before main().catch
TwoPhaseAgentThrow ==
  /\ pc = "running"
  /\ exc' = "stream"
  /\ success' = "raised"
  /\ inflight' = inflight - 1
  /\ pc' = "exited"
  /\ exitCode' = "1"
  /\ out' = << "Fatal error:" >>
  /\ probes' = << >>
  /\ UNCHANGED << session, started, phase, prompt, evCount, lastResult,
                  seen, pauses, announced, notifyCalls >>
  /\ UNCHANGED << argv, disk, pureVars >>

\* the stream ends, runAgent returns and main runs on to its next suspension
TwoPhaseAgentEnd ==
  LET v  == readFeatureList(fl)
      pr == getProgress(v)
  IN /\ pc = "running"
     /\ exc' = "none"
     /\ success' = "true"
     /\ inflight' = inflight - 1
     /\ probes' = << "feature_list" >>
     /\ UNCHANGED << session, started, phase, prompt, evCount, lastResult >>
     /\ IF v = Null
          THEN /\ out' = << "--- Agent session ended ---" >> \o readFeatureListLog(fl)
               /\ seen' = SeenNull
               /\ pauses' = Append(pauses, PacingMs)
               /\ pc' = "pacing"
               /\ UNCHANGED << announced, notifyCalls, exitCode >>
          ELSE IF pr.threw
            THEN /\ out' = << "--- Agent session ended ---", "Fatal error:" >>
                 /\ seen' = SeenThrew
                 /\ pc' = "exited"
                 /\ exitCode' = "1"
                 /\ UNCHANGED << pauses, announced, notifyCalls >>
            ELSE IF isComplete(pr.passing, pr.total)
              THEN /\ out' = << "--- Agent session ended ---", "Progress:",
                               "All features complete!" >>
                   /\ seen' = SeenProgress(pr)
                   /\ announced' = TRUE
                   /\ notifyCalls' = notifyCalls + 1
                   /\ pc' = "notifying"
                   /\ UNCHANGED << pauses, exitCode >>
              ELSE /\ out' = << "--- Agent session ended ---", "Progress:" >>
                   /\ seen' = SeenProgress(pr)
                   /\ pauses' = Append(pauses, PacingMs)
                   /\ pc' = "pacing"
                   /\ UNCHANGED << announced, notifyCalls, exitCode >>
     /\ UNCHANGED << argv, disk, pureVars >>

\* Bun.sleep(2000) resolves: end of the loop body, session++
TwoPhaseSleepDone ==
  /\ pc = "pacing"
  /\ TwoPhaseEnterIteration(session + 1, << >>)
  /\ UNCHANGED << argv, disk, announced, notifyCalls, pureVars >>

TwoPhaseNext ==
  \/ TwoPhaseStart
  \/ TwoPhaseAgentEvent
  \/ TwoPhaseAgentThrow
  \/ TwoPhaseAgentEnd
  \/ TwoPhaseSleepDone
  \/ NotifyDone
  \/ NotifyFail
  \/ DiskChange

TwoPhaseSpec == TwoPhaseInit /\ [][TwoPhaseNext]_vars

TypeOK ==
  /\ pc \in {"start", "running", "retrying", "pacing", "notifying", "finished", "exited"}
  /\ exitCode \in {"none", "0", "1"}
  /\ fl \in FeatureFiles
  /\ plan \in BOOLEAN
  /\ success \in {"pending", "true", "false"}
  /\ exc \in {"none", "stream", "handler"}
  /\ phase \in {"none", "initializer", "planner", "coder"}

(* ------------------------------ properties ----------------------------- *)
Range(q) == { q[i] : i \in 1..Len(q) }

\* this step starts an agent session
StartsSession == pc # "running" /\ pc' = "running"

\* this step is runAgent returning
EndsSession == pc = "running" /\ pc' # "running"

AllPassing(f) == f.kind = "list" /\ \A i \in 1..Len(f.features) : f.features[i]

\* C1 as stated: the phase of a session is initializer when the feature list
\* file is absent or does not parse, planner when it parses and there is no
\* plan, coder when it parses and there is a plan.
C1_AsStated ==
  [][ StartsSession =>
        phase' = IF fl.kind \in {"absent", "malformed"} THEN "initializer"
                 ELSE IF ~plan THEN "planner"
                 ELSE "coder" ]_vars

\* C1 amended: the phase of a session is initializer when the feature list
\* file is absent, does not parse or holds the JSON literal null, planner
\* when it parses to any other value and there is no plan, and coder when it
\* parses to any other value and there is a plan; no other phase is resolved.
C1_PhaseResolution ==
  [][ StartsSession =>
        /\ phase' = IF fl.kind \in {"absent", "malformed", "null"} THEN "initializer"
                    ELSE IF ~plan THEN "planner"
                    ELSE "coder"
        /\ phase' \in {"initializer", "planner", "coder"} ]_vars

C1_Witness ==
  pc = "running" /\ evCount = 0 /\ phase = "initializer" /\ fl.kind = "null" /\ plan

\* C2: a feature list file that exists but does not parse is handled as an
\* absent one: the session started on it is an initializer session, the read
\* after a successful session finds no list and paces on, each read prints
\* the diagnostic, and the process keeps running.
C2_MalformedIsAbsent ==
  [][ /\ (StartsSession /\ fl.kind = "malformed") =>
            /\ phase' = "initializer"
            /\ probes' = << "feature_list" >>
            /\ "Failed to parse feature_list.json" \in Range(out')
            /\ exitCode' = "none"
      /\ (EndsSession /\ success' = "true" /\ fl.kind = "malformed") =>
            /\ seen' = SeenNull
            /\ "Failed to parse feature_list.json" \in Range(out')
            /\ pc' = "pacing"
            /\ exitCode' = "none" ]_vars

C2_Witness ==
  /\ pc = "pacing" /\ phase = "initializer" /\ seen = SeenNull
  /\ fl.kind = "malformed" /\ plan
  /\ "Failed to parse feature_list.json" \in Range(out)

\* C3: when a session succeeds and the feature list read after it has at
\* least one feature and all features passing, completion is announced and
\* the notification is fired in that step, whatever the phase was; once
\* completion is announced no session is started any more.
C3_CompletionEndsLoop ==
  [][ /\ (EndsSession /\ success' = "true" /\ AllPassing(fl) /\ Len(fl.features) > 0) =>
            /\ announced'
            /\ "All features complete!" \in Range(out')
            /\ notifyCalls' = notifyCalls + 1
            /\ pc' = "notifying"
      /\ announced =>
            /\ started' = started
            /\ pc' \in {"notifying", "finished", "exited"} ]_vars

C3_Witness ==
  /\ pc = "finished" /\ announced /\ phase = "initializer"
  /\ seen.tag = "progress" /\ seen.total > 0 /\ seen.passing = seen.total
  /\ started < options.maxSessions.val

\* C4 as stated: completion is never announced, and no notification fired,
\* for a session after which the feature list read has no feature.
C4_NoCompletionOnEmptyList ==
  (success = "true" /\ seen.tag = "progress" /\ seen.total = 0) =>
     (~announced /\ notifyCalls = 0 /\ pc # "notifying")

\* C5: the number of sessions started never exceeds maxSessions (none is
\* started when maxSessions is not a number), and the loop index always
\* equals the number of sessions started, failed ones included.
C5_SessionBudget ==
  /\ options.maxSessions.isNaN => started = 0
  /\ ~options.maxSessions.isNaN /\ options.maxSessions.val >= 0 => started <= options.maxSessions.val
  /\ ~options.maxSessions.isNaN /\ options.maxSessions.val < 0 => started = 0
  /\ pc \in {"running", "retrying", "pacing", "notifying"} => session = started
  /\ pc = "finished" /\ ~announced => session = started + 1

C5_Witness ==
  /\ pc = "finished" /\ success = "false"
  /\ started = options.maxSessions.val /\ started >= 2

\* C6: when the stream raises, at any position, runAgent returns false and
\* nothing propagates: main prints the retry notice and sleeps 5000 ms; when
\* the sleep is over the loop index is one higher and, if the budget allows
\* a session, its phase is resolved from the disk as it is then.
C6_ExceptionRetries ==
  [][ /\ (EndsSession /\ exc' # "none") =>
            /\ success' = "false"
            /\ "Session failed, retrying after delay..." \in Range(out')
            /\ pauses' = << 5000 >>
            /\ pc' = "retrying"
            /\ exitCode' = "none"
      /\ (pc = "retrying" /\ pc' # "retrying") =>
            /\ session' = session + 1
            /\ pc' \in {"running", "finished"}
            /\ pc' = "running" =>
                 phase' = IF fl.kind \in {"absent", "malformed", "null"} THEN "initializer"
                          ELSE IF ~plan THEN "planner"
                          ELSE "coder" ]_vars

C6_Witness ==
  pc = "retrying" /\ exc = "stream" /\ evCount = 1 /\ success = "false" /\ pauses = << 5000 >>

\* C7 as stated: a session whose last result message has a subtype other
\* than success ends on the retry path (runAgent false, one 5000 ms pause).
C7_ErrorResultRetries ==
  (success # "pending" /\ lastResult \notin {"none", "success"}) =>
     (success = "false" /\ pauses = << 5000 >>)

\* C8: runAgent returns false exactly when its try block raised, and true
\* whenever the stream ended, whatever messages it delivered.
C8_ExceptionIsOnlyFailure ==
  /\ success # "pending" => (success = "false" <=> exc # "none")
  /\ success # "pending" /\ exc = "none" => success = "true"

C8_Witness ==
  /\ success = "true" /\ exc = "none"
  /\ lastResult = "error_max_turns" /\ evCount = MaxEvents

\* C9: a failed session is followed by no read of the feature list and no
\* completion check: nothing is announced or notified, even when the list on
\* disk is fully passing.
C9_NoCheckAfterFailure ==
  [][ /\ success' = "false" =>
            (seen' = Unread /\ ~announced' /\ notifyCalls' = 0 /\ pc' \in {"retrying", "finished"})
      /\ (EndsSession /\ success' = "false") => probes' = << >> ]_vars

C9_Witness ==
  /\ pc = "retrying" /\ success = "false" /\ seen = Unread
  /\ AllPassing(fl) /\ Len(fl.features) > 0 /\ ~announced

\* a session after which main read the feature list and it was not complete
\* (no list, or not all of at least one feature passing)
SuccessfulIncomplete ==
  /\ success = "true"
  /\ \/ seen.tag = "null"
     \/ seen.tag = "progress" /\ ~(seen.passing = seen.total /\ seen.total > 0)

\* C10 as stated: a failed session is followed by exactly one pause, of
\* 5000 ms, a successful incomplete one by exactly one pause, of 2000 ms.
C10_BackoffLaw ==
  /\ success = "false" => pauses = << 5000 >>
  /\ SuccessfulIncomplete => pauses = << 2000 >>
  /\ Len(pauses) <= 1

\* C11 as stated: a run that announced completion ends by main returning,
\* with exit status 0, whether or not the notifier could be started.
C11_NotifyFailureHarmless ==
  (announced /\ pc \in {"finished", "exited"}) => (pc = "finished" /\ exitCode = "0")

\* the variables only the program writes
programVars ==
  << argv, pc, exitCode, session, started, sessionVars, announced, notifyCalls,
     out, probes, inflight >>

\* C12: at most one agent invocation is in flight, a session starts only
\* when none is, main does nothing while one is (no read, no pause, no new
\* session), and the only way out of an in-flight session is the stream
\* ending or raising.
C12_Sequential ==
  [][ /\ inflight' \in {0, 1}
      /\ inflight' = 1 <=> pc' = "running"
      /\ StartsSession => inflight = 0
      /\ (pc = "running" /\ pc' = "running") =>
            /\ UNCHANGED << session, started, phase, prompt, seen, pauses,
                            announced, notifyCalls, exitCode, success >>
            /\ probes' = probes \/ probes' = << >>
      /\ EndsSession =>
            \/ exc' = "none" /\ success' = "true"
            \/ exc' \in {"stream", "handler"} /\ success' = "false" ]_vars

C12_Witness ==
  pc = "running" /\ inflight = 1 /\ started = 2 /\ evCount = MaxEvents

\* C13: every step that changes feature_list.json or plan.md is a step of
\* the environment, taken while main is suspended: no step of the program
\* (phase resolution, progress read, completion check, pause, notification)
\* changes an artifact.
C13_ArtifactsReadOnly ==
  [][ (fl' # fl \/ plan' # plan) =>
        /\ UNCHANGED programVars
        /\ pc \in {"running", "retrying", "pacing", "notifying"} ]_vars

C13_Witness ==
  /\ pc = "finished" /\ announced /\ plan
  /\ phase = "initializer" /\ fl.kind = "list" /\ Len(fl.features) = MaxFeatures

\* C14: every session start probes the feature list afresh and its phase is
\* a function of the disk as it is then, whatever the previous phase, outcome
\* or index: initializer for an absent or malformed list, planner for a list
\* without plan, coder for a list with plan.
C14_PhaseFromDiskOnly ==
  [][ StartsSession =>
        /\ probes' # << >> /\ Head(probes') = "feature_list"
        /\ fl.kind \in {"absent", "malformed"} => phase' = "initializer"
        /\ (fl.kind = "list" /\ ~plan) => phase' = "planner"
        /\ (fl.kind = "list" /\ plan) => phase' = "coder"
        /\ \A f \in FeatureFiles, p \in BOOLEAN :
             (f = fl /\ p = plan) =>
                phase' = IF f.kind \in {"absent", "malformed", "null"} THEN "initializer"
                         ELSE IF p THEN "coder" ELSE "planner" ]_vars

C14_Witness ==
  /\ pc = "running" /\ evCount = 0 /\ started = 2 /\ success = "pending"
  /\ phase = "planner" /\ fl.kind = "list" /\ ~plan

\* the control state of the orchestrator: Running(n) is a session in flight
\* or the pacing pause that ends slot n, Completed starts with the
\* announcement, BudgetExhausted is main returned without announcement
Ctl ==
  IF pc = "start" THEN "NotStarted"
  ELSE IF pc \in {"running", "pacing"} THEN "Running"
  ELSE IF pc = "retrying" THEN "Retrying"
  ELSE IF announced THEN "Completed"
  ELSE IF pc = "finished" THEN "BudgetExhausted"
  ELSE IF started = 0 THEN "ConfigExit"
  ELSE "Fatal"

\* C15 as stated: once main has passed its argument checks the control
\* state is one of Running(n), Retrying, Completed, BudgetExhausted, and a
\* step changes it only along Running -> Retrying (failure), Retrying ->
\* Running(n+1) or BudgetExhausted (slot n used), Running(n) -> Running(n+1)
\* (success, incomplete), Running -> Completed (success, all passing),
\* Running -> BudgetExhausted (loop over).
C15_StateMachine ==
  [][ /\ Ctl' \in {"NotStarted", "ConfigExit", "Running", "Retrying", "Completed", "BudgetExhausted"}
      /\ Ctl' # Ctl =>
           \/ Ctl = "NotStarted" /\ Ctl' \in {"ConfigExit", "BudgetExhausted"}
           \/ Ctl = "NotStarted" /\ Ctl' = "Running" /\ session' = 1
           \/ Ctl = "Running" /\ Ctl' = "Retrying" /\ success' = "false" /\ session' = session
           \/ Ctl = "Retrying" /\ Ctl' \in {"Running", "BudgetExhausted"} /\ session' = session + 1
           \/ Ctl = "Running" /\ Ctl' = "Completed" /\ success' = "true"
           \/ Ctl = "Running" /\ Ctl' = "BudgetExhausted" /\ session' = session + 1
      /\ (Ctl' = Ctl /\ Ctl = "Running" /\ session' # session) =>
           (pc = "pacing" /\ success = "true" /\ session' = session + 1) ]_vars

\* main returned because the loop test failed
BudgetExhausted ==
  /\ pc = "finished"
  /\ options.maxSessions.isNaN \/ session > options.maxSessions.val

\* C16: when the loop runs out of sessions main returns normally: exit
\* status 0, the same last line as after completion, and neither the
\* completion announcement nor a notification.
C16_ExhaustionIsSilent ==
  BudgetExhausted =>
    /\ exitCode = "0"
    /\ ~announced
    /\ notifyCalls = 0
    /\ out # << >> /\ out[Len(out)] = "=== Agent loop finished ==="
    /\ "All features complete!" \notin Range(out)

C16_Witness ==
  /\ BudgetExhausted /\ started = 2 /\ success = "true"
  /\ seen.tag = "progress" /\ seen.passing < seen.total

\* the number of sessions the command line allows
SessionBudget ==
  IF options.maxSessions.isNaN \/ options.maxSessions.val < 0 THEN 0
  ELSE options.maxSessions.val

\* C17 as stated: under the fair scheduling every run that passes the
\* argument checks eventually is Completed or BudgetExhausted, having
\* started at most maxSessions sessions.
C17_Termination ==
  <>( \/ Ctl = "ConfigExit"
      \/ Ctl \in {"Completed", "BudgetExhausted"} /\ started <= SessionBudget )

\* what does hold: every run stops
C17_Stops == <>(pc \in {"finished", "exited"})

\* C18: for the planner and the coder phase the prompt does not depend on
\* the project specification: built for any two specifications the two
\* prompts are the same, and carry no specification at all.
C18_OnlyInitializerUsesSpec ==
  (job.kind = "prompt" /\ shown.kind = "prompts" /\ job.phase # "initializer") =>
    (shown.a = shown.b /\ shown.a.spec = NoSpec)

C18_Witness ==
  /\ job.kind = "prompt" /\ shown.kind = "prompts"
  /\ job.phase = "planner" /\ job.specs[1] # job.specs[2]

\* the cap the claim gives a job's category
CapOf(j) ==
  IF j.kind = "toolInput" THEN ToolInputCap
  ELSE IF j.verbose THEN ToolResultCapVerbose ELSE ToolResultCap

\* the string a job hands to the display
Original(j) ==
  IF j.kind = "toolInput" THEN JSONstringify(j.input)
  ELSE IF j.variant = "ansi" THEN JSONstringify(j.content)
  ELSE TextOf(j.content)

\* C19 as stated: a displayed tool input or tool result is at most its
\* category's cap plus 3 characters long (200; 500 or 2000 when verbose),
\* and is the original when the original is within the cap.
C19_TruncationLaw ==
  (job.kind \in {"toolInput", "toolResult"} /\ shown.kind = "text") =>
    /\ Len(shown.text) <= CapOf(job) + Len(Ellipsis)
    /\ Len(Original(job)) <= CapOf(job) => shown.text = Original(job)

\* the length half of C19 alone, for the picocolors variant
C19_LengthBound ==
  (job.kind \in {"toolInput", "toolResult"} /\ shown.kind = "text") =>
    Len(shown.text) <= CapOf(job) + Len(Ellipsis)

\* C20 as stated: handling a tool-result event never raises out of the
\* event handler, so no session ends with a handler exception.
C20_UnwrapNeverAborts == exc # "handler"

\* C21: for a list of features getProgress returns total = the number of
\* features and passing = the number of features whose passes flag is true,
\* so 0 <= passing <= total; it raises nothing, gives the same result for
\* the same features in any other order, and leaves the list as it was.
C21_ProgressIsFold ==
  [][ (job.kind = "progress" /\ shown' # shown) =>
        /\ job' = job
        /\ ~shown'.a.threw
        /\ shown'.a.total = Len(job.features)
        /\ shown'.a.passing = Cardinality({ i \in 1..Len(job.features) : job.features[i] })
        /\ 0 <= shown'.a.passing /\ shown'.a.passing <= shown'.a.total
        /\ shown'.b = shown'.a ]_vars

C21_Witness ==
  /\ job.kind = "progress" /\ shown.kind = "progress"
  /\ Len(job.features) = MaxFeatures /\ job.order[1] # 1
  /\ ~job.features[1] /\ shown.a.passing = MaxFeatures - 1

ConfigError ==
  /\ ~argv.help
  /\ \/ argv.positionals = << >>
     \/ parseInt(argv.maxSessions).isNaN
     \/ ~argv.dirExists

\* C23 as stated: on a configuration error the run is reported as failed
\* and exits with a non-zero status before any session is started.
C23_ConfigErrorFatal ==
  (ConfigError /\ pc # "start") =>
    (pc = "exited" /\ exitCode = "1" /\ started = 0 /\ out # << >>)

\* the content holds an output field, directly or inside a one-element
\* list of text blocks
HasOutputField(c) ==
  c.shape \in {"outputString", "outputList", "textBlock", "textBlockMarked"}

\* what C24 says the unwrap leaves to display (a list of one string is not
\* an empty value, whatever the string)
C24_Expected(c) ==
  IF HasOutputField(c)
    THEN IF InnerOutput(c) = << >> /\ c.shape # "outputList" THEN Empty ELSE InnerOutput(c)
    ELSE TextOf(c)

\* C24 as stated: a tool result that holds an output field, directly or in
\* a one-element list of text blocks, is displayed as that output value, or
\* as "(empty)" when the value is empty; any other tool result is displayed
\* as it came (displays short enough not to be cut).
C24_UnwrapResult ==
  ( /\ job.kind = "toolResult" /\ job.variant = "picocolors" /\ shown.kind = "text"
    /\ Len(C24_Expected(job.content)) <= CapOf(job) ) =>
    shown.text = C24_Expected(job.content)

\* what does hold: C24 for every content but the text block whose inner
\* text does not hold the bare marker
C24_DirectUnwrap ==
  ( /\ job.kind = "toolResult" /\ job.variant = "picocolors" /\ shown.kind = "text"
    /\ job.content.shape # "textBlock"
    /\ Len(C24_Expected(job.content)) <= CapOf(job) ) =>
    shown.text = C24_Expected(job.content)

\* the messages C25 says are displayed in both modes: text segments, tool
\* invocations, the initialization event and the result event
AlwaysShown(e) ==
  \/ e.type = "assistant"
  \/ e.type = "system" /\ e.subtype = "init"
  \/ e.type = "result"

\* C25: without verbose a progress or a stream event prints nothing, with
\* verbose it prints its line; text, tool invocations, the initialization
\* event and the result event print the same lines in both modes (verbose
\* adds the message-type line in front); whether the loop body raises and
\* which result subtype is seen do not depend on verbose.
C25_VerbosityGating ==
  (job.kind = "event" /\ shown.kind = "handled") =>
    /\ job.event.type \in {"tool_progress", "stream_event"} =>
         (shown.quiet.lines = << >> /\ Len(shown.loud.lines) = 2)
    /\ AlwaysShown(job.event) =>
         (shown.quiet.lines # << >> /\ shown.loud.lines = << "[message]" >> \o shown.quiet.lines)
    /\ shown.quiet.threw = shown.loud.threw
    /\ shown.quiet.result = shown.loud.result

C25_Witness ==
  /\ job.kind = "event" /\ shown.kind = "handled"
  /\ job.event.type = "tool_progress"
  /\ shown.quiet.lines = << >> /\ shown.loud.lines = << "[message]", "[progress]" >>

\* C26 as stated: the two-phase main uses the initializer prompt exactly
\* when the feature list file is absent or does not parse, and the coder
\* prompt otherwise, whether or not a plan exists.
C26_AsStated ==
  (job.kind = "twoPhase" /\ shown.kind = "prompt2") =>
    shown.prompt.template =
      IF fl.kind \in {"absent", "malformed"} THEN "initializer" ELSE "coder"

\* C26 amended: the two-phase main uses the initializer prompt (with the
\* project specification) exactly when the feature list file is absent,
\* does not parse or holds the JSON literal null, and the coder prompt for
\* every other file content; it probes the feature list only, so the result
\* is the same with and without a plan.
C26_TwoPhaseSelection ==
  (job.kind = "twoPhase" /\ shown.kind = "prompt2") =>
    /\ shown.prompt =
         IF fl.kind \in {"absent", "malformed", "null"}
           THEN [template |-> "initializer", spec |-> job.spec]
           ELSE [template |-> "coder", spec |-> NoSpec]
    /\ shown.probes = << "feature_list" >>

C26_Witness ==
  /\ job.kind = "twoPhase" /\ shown.kind = "prompt2"
  /\ fl.kind = "list" /\ ~plan /\ shown.prompt.template = "coder"

\* an exception has escaped main: the process was ended by main().catch
\* after the loop had begun
Escaped == pc = "exited" /\ started > 0

\* C27 as stated: an exception that escapes the loop ends the process with
\* exit status 1 and the "Fatal error:" diagnostic, and no step of the
\* orchestrator raises such an exception.
C27_NoEscapingException ==
  /\ Escaped => (exitCode = "1" /\ "Fatal error:" \in Range(out))
  /\ ~Escaped

\* what does hold: the escape is reported with status 1 and is final
C27_EscapeIsFatal ==
  [][ /\ Escaped' => (exitCode' = "1" /\ "Fatal error:" \in Range(out'))
      /\ Escaped => FALSE ]_vars

\* C28: the k-th session of a run has index k; the index moves only when an
\* iteration begins, by exactly 1, after a failed session as after a
\* successful one, so no index is run twice.
C28_IndexOrder ==
  [][ /\ StartsSession =>
           (session' = session + 1 /\ started' = started + 1 /\ session' = started')
      /\ pc' \in {"running", "retrying", "pacing", "notifying"} => session' = started'
      /\ session' # session =>
           (session' = session + 1 /\ pc \in {"start", "retrying", "pacing"})
      /\ (pc \in {"retrying", "pacing"} /\ pc' # pc) => session' = session + 1 ]_vars

C28_Witness ==
  pc = "retrying" /\ session = 2 /\ started = 2 /\ success = "false"

\* --max-sessions leaves no session to run
NoSlots == options.maxSessions.isNaN \/ options.maxSessions.val <= 0

\* C29: with maxSessions zero, negative or not a number no session is
\* started, no artifact is read, completion is never announced, and a run
\* that passes the argument checks returns through the 'finished' line
\* with status 0.
C29_NoSlotsNoSession ==
  NoSlots =>
    /\ started = 0 /\ inflight = 0
    /\ probes = << >> /\ seen = Unread
    /\ ~announced /\ notifyCalls = 0
    /\ (pc # "start" /\ ~parseCliArgsExits(argv) /\ argv.dirExists) =>
         /\ pc = "finished" /\ exitCode = "0"
         /\ out[Len(out)] = "=== Agent loop finished ==="

C29_Witness ==
  /\ pc = "finished" /\ ~options.maxSessions.isNaN /\ options.maxSessions.val < 0
  /\ started = 0 /\ exitCode = "0"

\* C30: completion is announced only in the step that ends a successful
\* session; a run that passes the argument checks with maxSessions >= 1
\* starts a session whatever is on disk, and after a failed session the
\* next session is started (while the budget lasts) without any look at
\* the feature list.
C30_CompletionNeedsSuccess ==
  [][ /\ announced' => (success' = "true" /\ started' >= 1)
      /\ (announced' /\ ~announced) => EndsSession
      /\ ( /\ pc = "start" /\ pc' # "start"
           /\ ~parseCliArgsExits(argv) /\ argv.dirExists
           /\ ~options.maxSessions.isNaN /\ options.maxSessions.val >= 1 ) =>
           (pc' = "running" /\ started' = 1)
      /\ (pc = "retrying" /\ pc' # "retrying") =>
           /\ ~announced'
           /\ IF session + 1 <= options.maxSessions.val
                THEN pc' = "running" /\ started' = started + 1
                ELSE pc' = "finished" ]_vars

C30_Witness ==
  /\ pc = "retrying" /\ success = "false" /\ started = 2 /\ ~announced
  /\ AllPassing(fl) /\ Len(fl.features) = MaxFeatures

\* C31: a feature list file that is valid JSON but no object with a
\* features array is not taken for absent: the session started on it is a
\* planner or a coder session, never an initializer one, and a successful
\* session that ends on it makes the progress computation raise, which ends
\* the process with "Fatal error:" and status 1, without pause or
\* announcement; the JSON literal null is taken for absent at both places.
C31_BadShapeIsNotAbsent ==
  [][ /\ (StartsSession /\ fl.kind = "badShape") =>
            /\ phase' = IF plan THEN "coder" ELSE "planner"
            /\ probes' = << "feature_list", "plan" >>
      /\ (EndsSession /\ success' = "true" /\ fl.kind = "badShape") =>
            /\ seen' = SeenThrew
            /\ pc' = "exited" /\ exitCode' = "1"
            /\ "Fatal error:" \in Range(out')
            /\ pauses' = pauses /\ ~announced' /\ notifyCalls' = notifyCalls
      /\ (StartsSession /\ fl.kind = "null") =>
            (phase' = "initializer" /\ probes' = << "feature_list" >>)
      /\ (EndsSession /\ success' = "true" /\ fl.kind = "null") =>
            (seen' = SeenNull /\ pc' = "pacing" /\ exitCode' = "none")
      /\ (StartsSession /\ phase' = "initializer") =>
            fl.kind \in {"absent", "malformed", "null"}
      /\ seen' = SeenThrew => fl.kind = "badShape" ]_vars

C31_Witness ==
  /\ pc = "exited" /\ exitCode = "1" /\ seen = SeenThrew /\ success = "true"
  /\ phase = "coder" /\ fl.kind = "badShape" /\ started = 2

\* C32: the completion announcement and the notify call happen together,
\* at most once in a run, in the step that ends a successful session whose
\* re-read feature list has every feature passing; afterwards no session
\* is started and no pause is taken, so neither happens on a failed
\* session, on the loop running out, or before the first session.
C32_NotifyOnce ==
  [][ /\ notifyCalls' \in {0, 1}
      /\ announced' <=> notifyCalls' = 1
      /\ (announced' # announced \/ notifyCalls' # notifyCalls) =>
            /\ ~announced /\ notifyCalls = 0
            /\ EndsSession /\ exc' = "none" /\ success' = "true"
            /\ started >= 1
            /\ AllPassing(fl)
            /\ seen'.tag = "progress" /\ seen'.passing = seen'.total
            /\ "All features complete!" \in Range(out')
            /\ pc' = "notifying"
      /\ announced =>
            /\ pc \in {"notifying", "finished", "exited"}
            /\ pc' \in {"notifying", "finished", "exited"}
            /\ UNCHANGED << session, started, sessionVars, inflight >> ]_vars

C32_Witness ==
  /\ pc = "finished" /\ announced /\ notifyCalls = 1
  /\ started = 2 /\ success = "true" /\ seen.total = MaxFeatures

\* C33 as stated: in the two-phase variant no session fails: there is no
\* retry state and no 5000 ms pause, an exception of the stream ends the
\* process with "Fatal error:" and status 1, and every session that returns
\* is followed by the re-read of the feature list and the 2000 ms pause.
C33_AsStated ==
  [][ /\ pc' # "retrying" /\ BackoffMs \notin Range(pauses')
      /\ (EndsSession /\ exc' # "none") =>
            /\ pc' = "exited" /\ exitCode' = "1" /\ "Fatal error:" \in Range(out')
            /\ pauses' = pauses /\ seen' = Unread
      /\ (EndsSession /\ exc' = "none") =>
            /\ probes' = << "feature_list" >> /\ seen' # Unread
            /\ pc' = "pacing" /\ pauses' = << PacingMs >> ]_vars

\* C33 amended: as above, but the 2000 ms pause follows a returned session
\* only when the run goes on: when the re-read list has passing = total
\* the announcement and notify follow without pause, and when the re-read
\* value is no feature list (and not null) the progress computation raises
\* and the process ends with status 1.
C33_TwoPhaseNoFailure ==
  [][ /\ pc' # "retrying" /\ BackoffMs \notin Range(pauses')
      /\ (EndsSession /\ exc' # "none") =>
            /\ pc' = "exited" /\ exitCode' = "1" /\ "Fatal error:" \in Range(out')
            /\ pauses' = pauses /\ seen' = Unread
            /\ ~announced' /\ notifyCalls' = notifyCalls
      /\ (EndsSession /\ exc' = "none") =>
            /\ probes' = << "feature_list" >> /\ seen' # Unread
            /\ IF fl.kind = "badShape"
                 THEN pc' = "exited" /\ exitCode' = "1" /\ pauses' = << >>
                 ELSE IF AllPassing(fl)
                   THEN pc' = "notifying" /\ announced' /\ pauses' = << >>
                   ELSE pc' = "pacing" /\ pauses' = << PacingMs >> /\ ~announced' ]_vars

C33_Witness ==
  /\ pc = "exited" /\ exitCode = "1" /\ exc = "stream" /\ started = 2
  /\ pauses = << >> /\ phase = "coder"

====
